---------------------------- MODULE Spec2Model ----------------------------
(***************************************************************************)
(* Icon search of aws_icons: the two index passes (the per-request         *)
(* traversal getAllFilesRecursively of app/api/search-icons/route.ts and   *)
(* the snapshot generator scripts/generate-icons-json.js), the two         *)
(* versions of searchIconFiles (live filesystem, icons.json snapshot),    *)
(* the GET handlers in front of them, and the searches of the page         *)
(* component against them.                                                 *)
(*                                                                         *)
(* A JavaScript string is modelled as a sequence of one-character strings, *)
(* so that toLowerCase, split, includes, startsWith, path.extname,         *)
(* path.dirname, localeCompare and the default Array.prototype.sort order  *)
(* are computed character by character.  An optional value (a query        *)
(* parameter that may be missing) is a sequence of length 0 or 1.          *)
(***************************************************************************)
EXTENDS Integers, Sequences, FiniteSets

(***************************************************************************)
(* Characters.  CodeUnits lists the characters of the model in UTF-16      *)
(* code-unit order (the order of the default sort); Collation lists them   *)
(* at the primary level of the ICU root collation used by localeCompare    *)
(* (space, '_', '-', '.', '/', '\', digits, letters without case).         *)
(***************************************************************************)
UpperChars ==
  <<"A","B","C","D","E","F","G","H","I","J","K","L","M",
    "N","O","P","Q","R","S","T","U","V","W","X","Y","Z">>

LowerChars ==
  <<"a","b","c","d","e","f","g","h","i","j","k","l","m",
    "n","o","p","q","r","s","t","u","v","w","x","y","z">>

Digits == <<"0","1","2","3","4","5","6","7","8","9">>

CodeUnits == <<" ","-",".","/">> \o Digits \o UpperChars \o <<"\\","_">> \o LowerChars

Collation == <<" ","_","-",".","/","\\">> \o Digits \o LowerChars

IndexOf(seq, c) == CHOOSE i \in 1..Len(seq) : seq[i] = c

Chars == { CodeUnits[i] : i \in 1..Len(CodeUnits) }

IsUpper(c) == \E i \in 1..Len(UpperChars) : UpperChars[i] = c

\* String.prototype.toLowerCase on each character
LowerOf ==
  [c \in Chars |-> IF IsUpper(c) THEN LowerChars[IndexOf(UpperChars, c)] ELSE c]

ToLowerChar(c) == LowerOf[c]

\* String.prototype.toLowerCase
ToLowerCase(s) == [i \in 1..Len(s) |-> ToLowerChar(s[i])]

\* the place of each character in code-unit order
CodeOf == [c \in Chars |-> IndexOf(CodeUnits, c)]

CharCode(c) == CodeOf[c]

\* the place of each character's letter in the collation, and its case
PrimaryOf == [c \in Chars |-> IndexOf(Collation, LowerOf[c])]

TertiaryOf == [c \in Chars |-> IF IsUpper(c) THEN 1 ELSE 0]

PrimaryWeight(c) == PrimaryOf[c]

TertiaryWeight(c) == TertiaryOf[c]

\* lexicographic three-way comparison of two sequences of integers
RECURSIVE CompareWeights(_, _)
CompareWeights(a, b) ==
  IF a = <<>> /\ b = <<>> THEN 0
  ELSE IF a = <<>> THEN -1
  ELSE IF b = <<>> THEN 1
  ELSE IF Head(a) < Head(b) THEN -1
  ELSE IF Head(a) > Head(b) THEN 1
  ELSE CompareWeights(Tail(a), Tail(b))

\* the order of Array.prototype.sort() without a comparator: UTF-16 code units
CodeUnitCompare(a, b) ==
  CompareWeights([i \in 1..Len(a) |-> CharCode(a[i])],
                 [i \in 1..Len(b) |-> CharCode(b[i])])

\* String.prototype.localeCompare: the letters and punctuation first, case
\* ignored; strings equal at that level are ordered by case, lower case first
LocaleCompare(a, b) ==
  LET p == CompareWeights([i \in 1..Len(a) |-> PrimaryWeight(a[i])],
                          [i \in 1..Len(b) |-> PrimaryWeight(b[i])])
  IN  IF p # 0 THEN p
      ELSE CompareWeights([i \in 1..Len(a) |-> TertiaryWeight(a[i])],
                          [i \in 1..Len(b) |-> TertiaryWeight(b[i])])

\* String.prototype.startsWith
StartsWith(s, q) == Len(q) <= Len(s) /\ SubSeq(s, 1, Len(q)) = q

\* String.prototype.includes
Includes(s, q) ==
  \E i \in 0..(Len(s) - Len(q)) : SubSeq(s, i + 1, i + Len(q)) = q

\* String.prototype.trim (the model's only white space is the space)
RECURSIVE Trim(_)
Trim(s) ==
  IF s = <<>> THEN s
  ELSE IF Head(s) = " " THEN Trim(Tail(s))
  ELSE IF s[Len(s)] = " " THEN Trim(SubSeq(s, 1, Len(s) - 1))
  ELSE s

\* String.prototype.split on a one-character separator
RECURSIVE Split(_, _)
Split(s, sep) ==
  IF \E i \in 1..Len(s) : s[i] = sep
  THEN LET k == CHOOSE i \in 1..Len(s) :
                  s[i] = sep /\ \A j \in 1..(i - 1) : s[j] # sep
       IN  <<SubSeq(s, 1, k - 1)>> \o Split(SubSeq(s, k + 1, Len(s)), sep)
  ELSE <<s>>

\* Array.prototype.join
RECURSIVE Join(_, _)
Join(parts, sep) ==
  IF parts = <<>> THEN <<>>
  ELSE IF Len(parts) = 1 THEN parts[1]
  ELSE parts[1] \o <<sep>> \o Join(Tail(parts), sep)

\* s.replace(/\\/g, "/")
ReplaceBackslashes(s) == [i \in 1..Len(s) |-> IF s[i] = "\\" THEN "/" ELSE s[i]]

LastIndexOf(s, c) ==
  IF \E i \in 1..Len(s) : s[i] = c
  THEN CHOOSE i \in 1..Len(s) : s[i] = c /\ \A j \in (i + 1)..Len(s) : s[j] # c
  ELSE 0

\* path.extname of a file name: from the last '.', unless the name has none
\* or has it as its first character
Extname(name) ==
  LET k == LastIndexOf(name, ".")
  IN  IF k <= 1 THEN <<>> ELSE SubSeq(name, k, Len(name))

\* path.parse(name).name: the file name without its extension
ParseName(name) == SubSeq(name, 1, Len(name) - Len(Extname(name)))

\* path.dirname of a relative POSIX path
Dirname(p) ==
  LET k == LastIndexOf(p, "/")
  IN  IF k = 0 THEN <<".">> ELSE SubSeq(p, 1, k - 1)

(***************************************************************************)
(* Optional values: None is a parameter that is missing (undefined/null),  *)
(* Some(v) one that is present.                                            *)
(***************************************************************************)
None == <<>>

Some(v) == <<v>>

\* JavaScript truthiness of an optional string: present and not ""
Truthy(opt) == opt # None /\ opt[1] # <<>>

(***************************************************************************)
(* The names of the files and directories the model's trees are made of.   *)
(***************************************************************************)
N_lambda_svg == <<"l","a","m","b","d","a",".","s","v","g">>

N_lambda_function_svg ==
  <<"l","a","m","b","d","a","-","f","u","n","c","t","i","o","n",".","s","v","g">>

N_aws_lambda_arch_png ==
  <<"a","w","s","-","l","a","m","b","d","a","-","a","r","c","h",".","p","n","g">>

N_EC2_SVG == <<"E","C","2",".","S","V","G">>

N_ec2_svg == <<"e","c","2",".","s","v","g">>

N_ec2_instance_svg == <<"e","c","2","-","i","n","s","t","a","n","c","e",".","s","v","g">>

N_logo_png == <<"l","o","g","o",".","p","n","g">>

N_icon_svg == <<"i","c","o","n",".","s","v","g">>

N_space_svg == <<" ",".","s","v","g">>

N_readme_md == <<"r","e","a","d","m","e",".","m","d">>

D_compute == <<"c","o","m","p","u","t","e">>

D_Compute == <<"C","o","m","p","u","t","e">>

D_diagrams == <<"d","i","a","g","r","a","m","s">>

D_ec2 == <<"e","c","2">>

D_dotgit == <<".","g","i","t">>

D_node_modules == <<"n","o","d","e","_","m","o","d","u","l","e","s">>

D_pkg == <<"p","k","g">>

D_d == <<"d">>

S_root == <<"r","o","o","t">>

S_dot == <<".">>

S_icons_prefix == <<"/","i","c","o","n","s","/">>

S_public_prefix == <<"p","u","b","l","i","c","/">>

Q_lambda == <<"l","a","m","b","d","a">>

Q_Lambda == <<"L","a","m","b","d","a">>

Q_ec2 == <<"e","c","2">>

Q_compute == <<"c","o","m","p","u","t","e">>

Q_space == <<" ">>

Q_empty == <<>>

\* the deepest directory whose files are still indexed: ten levels below the root
DeepDir == <<D_d, D_d, D_d, D_d, D_d, D_d, D_d, D_d, D_d, D_d>>

\* a file one directory level below DeepDir
TooDeepFile == Append(Append(DeepDir, D_d), N_icon_svg)

(***************************************************************************)
(* The files that may exist below public/icons, each the sequence of the   *)
(* names from the root down to the file.  A tree is a set of them; its     *)
(* directories are the proper prefixes of its files.                       *)
(***************************************************************************)
FileUniverse ==
  { <<N_lambda_svg>>,
    <<D_compute, N_lambda_function_svg>>,
    <<D_compute, D_diagrams, N_aws_lambda_arch_png>>,
    <<D_Compute, N_EC2_SVG>>,
    <<D_ec2, N_ec2_instance_svg>>,
    <<D_dotgit, N_logo_png>>,
    Append(DeepDir, N_ec2_svg),
    <<N_space_svg>>,
    TooDeepFile }

\* the number of files of a tree
MaxFiles == 3

Trees == { t \in SUBSET FileUniverse : Cardinality(t) <= MaxFiles }

(***************************************************************************)
(* The filesystem calls of an index pass.                                  *)
(***************************************************************************)
\* the elements of a set of strings in code-unit order
SortSet(S) ==
  [k \in 1..Cardinality(S) |->
     CHOOSE s \in S : Cardinality({t \in S : CodeUnitCompare(t, s) < 0}) = k - 1]

Reverse(seq) == [i \in 1..Len(seq) |-> seq[Len(seq) + 1 - i]]

\* fs.readdir: the names in directory dir, in one of the orders the
\* filesystem may list them
Readdir(t, rev, dir) ==
  LET below == { f \in t : Len(f) > Len(dir) /\ SubSeq(f, 1, Len(dir)) = dir }
      names == SortSet({ f[Len(dir) + 1] : f \in below })
  IN  IF rev THEN Reverse(names) ELSE names

\* entry.isFile(); every other entry of a tree is a directory
IsFile(t, dir, name) == Append(dir, name) \in t

\* path.relative(baseDir, path.join(dirPath, entry.name)) on a POSIX system
RelativePath(dir, name) == Join(Append(dir, name), "/")

SupportedFormats ==
  { <<".","s","v","g">>, <<".","p","n","g">>, <<".","j","p","g">>,
    <<".","j","p","e","g">>, <<".","g","i","f">>, <<".","w","e","b","p">>,
    <<".","i","c","o">> }

maxDepth == 10

\* relativePath.replace(/^public\//, "/")
StripPublic(rel) ==
  IF StartsWith(rel, S_public_prefix)
  THEN <<"/">> \o SubSeq(rel, Len(S_public_prefix) + 1, Len(rel))
  ELSE rel

\* the per-request traversal skips these directories
IsSkippedDirectory(name) == StartsWith(name, S_dot) \/ name = D_node_modules

\* the IconFile the per-request traversal pushes for a file
IconFileOf(dir, name, currentDepth) ==
  LET relativePath == RelativePath(dir, name)
      directory    == Dirname(relativePath)
  IN  [ name         |-> name,
        path         |-> ReplaceBackslashes(StripPublic(relativePath)),
        relativePath |-> ReplaceBackslashes(relativePath),
        directory    |-> IF directory = S_dot THEN S_root
                         ELSE ReplaceBackslashes(directory),
        depth        |-> currentDepth ]

\* an index pass meets at most one failing filesystem call: failing is None,
\* or Some of the path, below the directory indexed, whose fs.readdir (a
\* directory) or fs.stat (a file) rejects
Fails(failing, path) == failing = Some(path)

RECURSIVE getAllFilesRecursively(_, _, _, _, _)
RECURSIVE WalkEntries(_, _, _, _, _, _)
\* the for loop of getAllFilesRecursively over the entries still to visit;
\* the inner catch answers a rejected fs.stat and the loop goes on
WalkEntries(t, rev, dir, currentDepth, entries, failing) ==
  IF entries = <<>> THEN <<>>
  ELSE LET name == Head(entries)
           here ==
             IF ~IsFile(t, dir, name)
             THEN IF IsSkippedDirectory(name) THEN <<>>
                  ELSE getAllFilesRecursively(t, rev, Append(dir, name),
                                              currentDepth + 1, failing)
             ELSE IF ToLowerCase(Extname(name)) \in SupportedFormats
                  THEN IF Fails(failing, Append(dir, name)) THEN <<>>
                       ELSE <<IconFileOf(dir, name, currentDepth)>>
                  ELSE <<>>
       IN  here \o WalkEntries(t, rev, dir, currentDepth, Tail(entries), failing)

\* a traversal that descends however deep the tree is
getAllFilesUncapped(t, rev, dir, currentDepth, failing) ==
  IF Fails(failing, dir) THEN <<>>
  ELSE WalkEntries(t, rev, dir, currentDepth, Readdir(t, rev, dir), failing)

\* the catch around the body answers a rejected fs.readdir with the files
\* collected so far, which are none
getAllFilesRecursively(t, rev, dir, currentDepth, failing) ==
  IF currentDepth > maxDepth THEN <<>>
  ELSE IF Fails(failing, dir) THEN <<>>
  ELSE WalkEntries(t, rev, dir, currentDepth, Readdir(t, rev, dir), failing)

(***************************************************************************)
(* The snapshot generator, scripts/generate-icons-json.js.                 *)
(***************************************************************************)
genMaxDepth == 10

\* the record the generator pushes for a file
GeneratedIconOf(dir, name, depth) ==
  LET relativePath == ReplaceBackslashes(RelativePath(dir, name))
      parent       == ReplaceBackslashes(Dirname(relativePath))
  IN  [ name         |-> name,
        path         |-> S_icons_prefix \o relativePath,
        relativePath |-> relativePath,
        directory    |-> IF parent = <<>> THEN S_root ELSE parent,
        depth        |-> depth ]

\* how a call of getAllIconFiles ends: it returns files, or the rejection of
\* an awaited filesystem call leaves it as an exception
Returned(files) == [threw |-> FALSE, files |-> files]

Thrown == [threw |-> TRUE, files |-> <<>>]

RECURSIVE getAllIconFiles(_, _, _, _, _)
RECURSIVE GenWalkEntries(_, _, _, _, _, _)
\* the for loop of getAllIconFiles over the entries still to visit: nothing
\* catches a rejected fs.stat or a rejected recursive call
GenWalkEntries(t, rev, dir, depth, entries, failing) ==
  IF entries = <<>> THEN Returned(<<>>)
  ELSE LET name == Head(entries)
           here ==
             IF ~IsFile(t, dir, name)
             THEN getAllIconFiles(t, rev, Append(dir, name), depth + 1, failing)
             ELSE IF ToLowerCase(Extname(name)) \in SupportedFormats
                  THEN IF Fails(failing, Append(dir, name)) THEN Thrown
                       ELSE Returned(<<GeneratedIconOf(dir, name, depth)>>)
                  ELSE Returned(<<>>)
           rest == GenWalkEntries(t, rev, dir, depth, Tail(entries), failing)
       IN  IF here.threw \/ rest.threw THEN Thrown
           ELSE Returned(here.files \o rest.files)

\* nothing catches a rejected fs.readdir
getAllIconFiles(t, rev, dir, depth, failing) ==
  IF depth > genMaxDepth THEN Returned(<<>>)
  ELSE IF Fails(failing, dir) THEN Thrown
  ELSE GenWalkEntries(t, rev, dir, depth, Readdir(t, rev, dir), failing)

(***************************************************************************)
(* searchIconFiles: the steps both versions share.                         *)
(***************************************************************************)
\* a filter that also keeps the directories below filterDir
FilterByDirectoryPrefix(allFiles, filterDir) ==
  IF Truthy(filterDir)
  THEN LET KeepFile(file) == StartsWith(file.directory, filterDir[1])
       IN  SelectSeq(allFiles, KeepFile)
  ELSE allFiles

\* allFiles.filter((file) => file.directory === filterDir), when filterDir is set
FilterByDirectory(allFiles, filterDir) ==
  IF Truthy(filterDir)
  THEN LET KeepFile(file) == file.directory = filterDir[1]
       IN  SelectSeq(allFiles, KeepFile)
  ELSE allFiles

\* a roster of the directories the filter leaves
RosterOfFilteredFiles(allFiles, filteredFiles) == filteredFiles

\* the array whose directories are listed: allFiles, not filteredFiles
RosterFiles(allFiles, filteredFiles) == allFiles

\* [...new Set(allFiles.map((file) => file.directory))].sort()
UniqueDirectories(files) ==
  SortSet({ files[i].directory : i \in 1..Len(files) })

\* Array.prototype.sort with a comparator that orders the elements
\* consistently, compare[i, j] being its value on arr[i] and arr[j]: the
\* stable arrangement in which no element follows one the comparator puts
\* after it
StableSort(arr, compare) ==
  LET n == Len(arr)
      Rank(i) == Cardinality({ j \in 1..n :
                    \/ compare[j, i] < 0
                    \/ compare[j, i] = 0 /\ j < i })
  IN  [k \in 1..n |-> arr[CHOOSE i \in 1..n : Rank(i) = k - 1]]

\* a comparator that forgets the name
CompareDirectoryOnly(a, b) ==
  IF a.directory # b.directory
  THEN LocaleCompare(a.directory, b.directory)
  ELSE 0

\* the comparator of the branch without a search term: directory, then name
CompareDirectoryThenName(a, b) ==
  IF a.directory # b.directory
  THEN LocaleCompare(a.directory, b.directory)
  ELSE LocaleCompare(a.name, b.name)

\* the strings a file is searched in
SearchTargets(file) ==
  LET fileName           == ToLowerCase(file.name)
      fileNameWithoutExt == ParseName(fileName)
      directoryName      == ToLowerCase(file.directory)
      relativePath       == ToLowerCase(file.relativePath)
  IN  <<fileName, fileNameWithoutExt, directoryName, relativePath>>
        \o Split(fileNameWithoutExt, "-")
        \o Split(directoryName, "/")
        \o Split(relativePath, "/")

\* a filter that keeps every file
MatchesEverything(file, searchTermLower) == TRUE

\* searchTargets.some((target) => target.includes(searchTermLower))
MatchesSearchTerm(file, searchTermLower) ==
  LET targets == SearchTargets(file)
  IN  \E i \in 1..Len(targets) : Includes(targets[i], searchTermLower)

ExactBonus == 100

PrefixBonus == 50

DirectoryBonus == 25

ContainsBonus == 10

\* a score in which the depth outweighs the exact match
getRelevanceScoreSteepDepth(file, searchTermLower) ==
  LET fileName           == ToLowerCase(file.name)
      fileNameWithoutExt == ParseName(fileName)
      directory          == ToLowerCase(file.directory)
  IN  (IF fileName = searchTermLower \/ fileNameWithoutExt = searchTermLower
         THEN ExactBonus ELSE 0)
    + (IF StartsWith(fileName, searchTermLower)
            \/ StartsWith(fileNameWithoutExt, searchTermLower)
         THEN PrefixBonus ELSE 0)
    + (IF Includes(directory, searchTermLower) THEN DirectoryBonus ELSE 0)
    + (IF Includes(fileName, searchTermLower) THEN ContainsBonus ELSE 0)
    - file.depth * ContainsBonus

getRelevanceScore(file, searchTermLower) ==
  LET fileName           == ToLowerCase(file.name)
      fileNameWithoutExt == ParseName(fileName)
      directory          == ToLowerCase(file.directory)
  IN  (IF fileName = searchTermLower \/ fileNameWithoutExt = searchTermLower
         THEN ExactBonus ELSE 0)
    + (IF StartsWith(fileName, searchTermLower)
            \/ StartsWith(fileNameWithoutExt, searchTermLower)
         THEN PrefixBonus ELSE 0)
    + (IF Includes(directory, searchTermLower) THEN DirectoryBonus ELSE 0)
    + (IF Includes(fileName, searchTermLower) THEN ContainsBonus ELSE 0)
    - file.depth

\* the relevance comparator of the live-filesystem version: score descending,
\* then the lower-cased directory, then the lower-cased name
CompareRelevanceLive(a, b, searchTermLower) ==
  LET aName  == ToLowerCase(a.name)
      bName  == ToLowerCase(b.name)
      aDir   == ToLowerCase(a.directory)
      bDir   == ToLowerCase(b.directory)
      scoreA == getRelevanceScore(a, searchTermLower)
      scoreB == getRelevanceScore(b, searchTermLower)
  IN  IF scoreA # scoreB THEN scoreB - scoreA
      ELSE IF aDir # bDir THEN LocaleCompare(aDir, bDir)
      ELSE LocaleCompare(aName, bName)

\* the relevance comparator of the snapshot version: score descending, then
\* the directory, then the name, as they are
CompareRelevanceSnapshot(a, b, searchTermLower) ==
  LET scoreA == getRelevanceScore(a, searchTermLower)
      scoreB == getRelevanceScore(b, searchTermLower)
  IN  IF scoreA # scoreB THEN scoreB - scoreA
      ELSE IF a.directory # b.directory THEN LocaleCompare(a.directory, b.directory)
      ELSE LocaleCompare(a.name, b.name)

\* !searchTerm.trim()
IsBlank(searchTerm) == Trim(searchTerm) = <<>>

\* the result of searchIconFiles: fault is "none", "noroot" (the early return
\* for a missing directory), "caught" (the catch of the outer try) or "thrown"
\* (an exception that leaves the function, which its try around the whole
\* body never lets happen); allFiles is the snapshot that was searched, None
\* when none was obtained
SearchResult(icons, directories, fault, allFiles) ==
  [ icons |-> icons, directories |-> directories, fault |-> fault,
    allFiles |-> allFiles ]

\* searchIconFiles of the live-filesystem version, from "Apply directory
\* filter" on
SearchAllFilesLive(allFiles, searchTerm, filterDir) ==
  LET filteredFiles   == FilterByDirectory(allFiles, filterDir)
      directories     == UniqueDirectories(RosterFiles(allFiles, filteredFiles))
      searchTermLower == ToLowerCase(searchTerm)
      Matching(file)  == MatchesSearchTerm(file, searchTermLower)
      matchingFiles   == SelectSeq(filteredFiles, Matching)
  IN  IF IsBlank(searchTerm)
      THEN SearchResult(
             StableSort(filteredFiles,
                        [i, j \in 1..Len(filteredFiles) |->
                           CompareDirectoryThenName(filteredFiles[i], filteredFiles[j])]),
             directories, "none", Some(allFiles))
      ELSE SearchResult(
             StableSort(matchingFiles,
                        [i, j \in 1..Len(matchingFiles) |->
                           CompareRelevanceLive(matchingFiles[i], matchingFiles[j],
                              searchTermLower)]),
             directories, "none", Some(allFiles))

(***************************************************************************)
(* The project directory, process.cwd(), around public/icons.              *)
(***************************************************************************)
D_public == <<"p","u","b","l","i","c">>

D_icons == <<"i","c","o","n","s">>

D_app == <<"a","p","p">>

N_favicon_ico == <<"f","a","v","i","c","o","n",".","i","c","o">>

S_public_icons == <<"p","u","b","l","i","c","/","i","c","o","n","s">>

\* the files of the project that are not below public/icons
OutsideFiles ==
  { <<D_app, N_favicon_ico>>, <<N_readme_md>>,
    <<D_node_modules, D_pkg, N_icon_svg>> }

\* the files of the project when t is the tree below public/icons
ProjectFiles(t) == { <<D_public, D_icons>> \o f : f \in t } \cup OutsideFiles

\* the directories of a tree, the indexed directory itself left out
DirectoriesOf(t) ==
  UNION { { SubSeq(f, 1, k) : k \in 1..(Len(f) - 1) } : f \in t }

\* path.join(process.cwd(), directory), as the segments below process.cwd():
\* path.join drops empty and "." segments
ResolveDirectory(directory) ==
  LET Named(segment) == segment # <<>> /\ segment # S_dot
  IN  SelectSeq(Split(directory, "/"), Named)

\* fs.access(iconsDirectory) succeeds: exists tells whether public/icons,
\* which may be empty, does
DirectoryExists(t, exists, iconsDirectory) ==
  \/ iconsDirectory = <<>>
  \/ exists /\ iconsDirectory \in { <<D_public>>, <<D_public, D_icons>> }
  \/ iconsDirectory \in DirectoriesOf(ProjectFiles(t))

\* the tree below iconsDirectory
TreeBelow(files, iconsDirectory) ==
  { SubSeq(f, Len(iconsDirectory) + 1, Len(f)) :
      f \in { g \in files : /\ Len(g) > Len(iconsDirectory)
                             /\ SubSeq(g, 1, Len(iconsDirectory)) = iconsDirectory } }

\* searchIconFiles of the live-filesystem version, with t the tree below
\* public/icons and exists telling whether public/icons does; failing is
\* relative to iconsDirectory
searchIconFilesLive(t, rev, exists, searchTerm, directory, filterDir, failing) ==
  LET iconsDirectory == ResolveDirectory(directory)
  IN  IF ~DirectoryExists(t, exists, iconsDirectory)
      THEN SearchResult(<<>>, <<>>, "noroot", None)
      ELSE SearchAllFilesLive(
             getAllFilesRecursively(TreeBelow(ProjectFiles(t), iconsDirectory),
                                    rev, <<>>, 0, failing),
             searchTerm, filterDir)

\* searchIconFiles of the snapshot version, from the directory filter on
SearchAllFilesSnapshot(allFiles, searchTerm, filterDir) ==
  LET filteredFiles   == FilterByDirectory(allFiles, filterDir)
      directories     == UniqueDirectories(RosterFiles(allFiles, filteredFiles))
      searchTermLower == ToLowerCase(searchTerm)
      Matching(file)  == MatchesSearchTerm(file, searchTermLower)
      matchingFiles   == SelectSeq(filteredFiles, Matching)
  IN  IF IsBlank(searchTerm)
      THEN SearchResult(
             StableSort(filteredFiles,
                        [i, j \in 1..Len(filteredFiles) |->
                           CompareDirectoryThenName(filteredFiles[i], filteredFiles[j])]),
             directories, "none", Some(allFiles))
      ELSE SearchResult(
             StableSort(matchingFiles,
                        [i, j \in 1..Len(matchingFiles) |->
                           CompareRelevanceSnapshot(matchingFiles[i], matchingFiles[j],
                              searchTermLower)]),
             directories, "none", Some(allFiles))

\* searchIconFiles of the snapshot version; fs.readFile throws when
\* app/icons.json is absent and JSON.parse when it is corrupt, and the catch
\* of the function answers both
searchIconFilesSnapshot(json, searchTerm, filterDir) ==
  IF json.kind # "ok"
  THEN SearchResult(<<>>, <<>>, "caught", None)
  ELSE SearchAllFilesSnapshot(json.files, searchTerm, filterDir)

S_failed ==
  <<"F","a","i","l","e","d"," ","t","o"," ","s","e","a","r","c","h"," ",
    "i","c","o","n","s">>

\* the response of the catch of GET
ErrorResponse ==
  [ status      |-> 500,
    error       |-> Some(S_failed),
    icons       |-> <<>>,
    total       |-> 0,
    query       |-> <<>>,
    directories |-> <<>> ]

\* the body of GET after the call of searchIconFiles: the response of the
\* try, or that of the catch when the call throws
ResponseOf(query, result) ==
  IF result.fault = "thrown"
  THEN ErrorResponse
  ELSE [ status      |-> 200,
         error       |-> None,
         icons       |-> result.icons,
         total       |-> Len(result.icons),
         query       |-> query,
         directories |-> result.directories ]

\* searchParams.get(name) || fallback
ParamOr(param, fallback) == IF Truthy(param) THEN param[1] ELSE fallback

\* searchParams.get("filter_dir") || undefined
ParamOrUndefined(param) == IF Truthy(param) THEN param ELSE None

(***************************************************************************)
(* The requests the model sends.                                           *)
(***************************************************************************)
QueryParams ==
  { None, Some(Q_space), Some(Q_lambda), Some(Q_Lambda), Some(Q_ec2),
    Some(Q_compute) }

FilterParams ==
  { None, Some(<<>>), Some(D_compute), Some(S_root) }

\* the values of the parameter dir: absent, or the project directory
DirParams == { None, Some(S_dot) }

\* the filesystem calls the model lets fail: fs.stat of a file and fs.readdir
\* of a subdirectory, each with siblings listed before and after it
FaultUniverse ==
  { <<D_compute, N_lambda_function_svg>>, <<D_compute, D_diagrams>> }

\* the failures an index pass of tree t can meet
Faults(t) == { Some(p) : p \in FaultUniverse \cap (t \cup DirectoriesOf(t)) }

(***************************************************************************)
(* State.                                                                  *)
(*   version     which version of route.ts is deployed: "live" searches    *)
(*               the filesystem on every request, "snapshot" searches      *)
(*               app/icons.json                                            *)
(*   tree        the files below public/icons                              *)
(*   rootExists  whether public/icons exists                               *)
(*   readdirRev  which of the two listing orders fs.readdir uses           *)
(*   iconsJson   app/icons.json: kind "absent", "corrupt" or "ok", and the *)
(*               records it holds                                          *)
(*   genStatus   how the last run of the generator ended                   *)
(*   failing     the filesystem call that rejected during the index pass   *)
(*               whose outcome the state holds (that of the request being  *)
(*               answered, or of the last run of the generator): None, or  *)
(*               Some of its path                                          *)
(*   request     the request being answered: None, or Some of the query    *)
(*               parameters q, filter_dir and dir                          *)
(*   result      what searchIconFiles returned for it                      *)
(*   response    the JSON body and status GET answered with, until the     *)
(*               client has taken it                                       *)
(* and of the page:                                                        *)
(*   searchQuery, icons, loading, error, directories, selectedDirectory    *)
(*               the state of the component                                *)
(*   searches    the calls of searchIcons so far, in the order they were   *)
(*               made, each with its query and directory                   *)
(*   inFlight    the calls, by their place in searches, whose fetch has    *)
(*               not settled                                               *)
(***************************************************************************)
VARIABLES version, tree, rootExists, readdirRev, iconsJson, genStatus, failing,
          request, result, response,
          searchQuery, icons, loading, error, directories, selectedDirectory,
          searches, inFlight

\* the page
page == <<searchQuery, icons, loading, error, directories, selectedDirectory,
          searches, inFlight>>

vars == <<version, tree, rootExists, readdirRev, iconsJson, genStatus, failing,
          request, result, response, page>>

\* the component as useState and useRef initialise it
PageInit ==
  /\ searchQuery = <<>>
  /\ icons = <<>>
  /\ loading = FALSE
  /\ error = None
  /\ directories = <<>>
  /\ selectedDirectory = None
  /\ searches = <<>>
  /\ inFlight = {}

\* what no request changes
site == <<version, tree, rootExists, readdirRev, iconsJson, genStatus>>

Init ==
  /\ version \in {"live", "snapshot"}
  /\ rootExists \in BOOLEAN
  /\ tree \in IF rootExists THEN Trees ELSE {{}}
  /\ readdirRev \in BOOLEAN
  /\ iconsJson \in IF version = "live"
                   THEN { [kind |-> "absent", files |-> <<>>] }
                   ELSE { [kind |-> "absent", files |-> <<>>],
                          [kind |-> "corrupt", files |-> <<>>] }
  /\ genStatus = "none"
  /\ failing = None
  /\ request = None
  /\ result = None
  /\ response = None
  /\ PageInit

\* node scripts/generate-icons-json.js, run where the snapshot version is
\* deployed: when an awaited filesystem call rejects (fs.readdir of
\* public/icons when it does not exist, or the call fail names) nothing
\* catches it, the script ends there and icons.json is not written
Generate(fail) ==
  LET rejected == IF rootExists THEN fail ELSE Some(<<>>)
      allIcons == getAllIconFiles(tree, readdirRev, <<>>, 0, rejected)
  IN  /\ version = "snapshot"
      /\ request = None
      /\ IF allIcons.threw
         THEN /\ iconsJson' = iconsJson
              /\ genStatus' = "threw"
         ELSE /\ iconsJson' = [kind |-> "ok", files |-> allIcons.files]
              /\ genStatus' = "ok"
      /\ failing' = rejected
      /\ UNCHANGED <<version, tree, rootExists, readdirRev, request, result,
                     response, page>>

\* GET of the live-filesystem version
GETLive(q, filter_dir, dir, fail) ==
  LET query     == ParamOr(q, <<>>)
      directory == ParamOr(dir, S_public_icons)
      filterDir == ParamOrUndefined(filter_dir)
      res       == searchIconFilesLive(tree, readdirRev, rootExists, query,
                                       directory, filterDir, fail)
  IN  /\ version = "live"
      /\ request = None
      /\ request' = Some([q |-> q, filter_dir |-> filter_dir, dir |-> dir])
      /\ result' = Some(res)
      /\ response' = Some(ResponseOf(query, res))
      /\ failing' = fail
      /\ UNCHANGED <<site, page>>

\* GET of the snapshot version, which reads q and filter_dir only
GETSnapshot(q, filter_dir) ==
  LET query     == ParamOr(q, <<>>)
      filterDir == ParamOrUndefined(filter_dir)
      res       == searchIconFilesSnapshot(iconsJson, query, filterDir)
  IN  /\ version = "snapshot"
      /\ request = None
      /\ request' = Some([q |-> q, filter_dir |-> filter_dir, dir |-> None])
      /\ result' = Some(res)
      /\ response' = Some(ResponseOf(query, res))
      /\ UNCHANGED <<site, failing, page>>

\* the client takes the response: the handler keeps nothing of a request
Receive ==
  /\ request # None
  /\ request' = None
  /\ result' = None
  /\ response' = None
  /\ failing' = IF version = "live" THEN None ELSE failing
  /\ UNCHANGED <<site, page>>

Next ==
  \/ \E fail \in {None} \cup Faults(tree) : Generate(fail)
  \/ Receive
  \/ \E q \in QueryParams, f \in FilterParams : GETLive(q, f, None, None)
  \/ \E fail \in Faults(tree) : GETLive(None, None, None, fail)
  \/ \E q \in {None, Some(Q_lambda)}, dir \in DirParams \ {None} :
        GETLive(q, None, dir, None)
  \/ \E q \in QueryParams, f \in FilterParams : GETSnapshot(q, f)

Spec == Init /\ [][Next]_vars

(***************************************************************************)
(* The page: the searches of the component against the deployed route.     *)
(***************************************************************************)
\* the searches the page may make
MaxSearches == 3

\* the texts typed into the search box
TypedQueries == { Q_empty, Q_lambda, Q_ec2 }

\* the body and status GET of the deployed version answers
\* /api/search-icons?q=query[&filter_dir=directory] with
AnswerTo(query, directory) ==
  LET q          == Some(query)
      filter_dir == IF Truthy(directory) THEN directory ELSE None
      term       == ParamOr(q, <<>>)
      filterDir  == ParamOrUndefined(filter_dir)
  IN  IF version = "live"
      THEN ResponseOf(term, searchIconFilesLive(tree, readdirRev, rootExists, term,
                                                S_public_icons, filterDir, None))
      ELSE ResponseOf(term, searchIconFilesSnapshot(iconsJson, term, filterDir))

\* a site with two icons, the snapshot of the snapshot version generated
PageInitSite ==
  /\ version \in {"live", "snapshot"}
  /\ rootExists = TRUE
  /\ tree = { <<N_lambda_svg>>, <<D_ec2, N_ec2_instance_svg>> }
  /\ readdirRev \in BOOLEAN
  /\ iconsJson =
       IF version = "live" THEN [kind |-> "absent", files |-> <<>>]
       ELSE [kind  |-> "ok",
             files |-> getAllIconFiles(tree, readdirRev, <<>>, 0, None).files]
  /\ genStatus = IF version = "live" THEN "none" ELSE "ok"
  /\ failing = None
  /\ request = None
  /\ result = None
  /\ response = None

UIInit == PageInitSite /\ PageInit

server == <<site, failing, request, result, response>>

\* onChange of the search box
setSearchQuery(value) ==
  /\ value # searchQuery
  /\ searchQuery' = value
  /\ UNCHANGED <<icons, loading, error, directories, selectedDirectory, searches,
                 inFlight, server>>

\* the click on the search button: searchIcons(searchQuery,
\* selectedDirectory) up to its await of fetch; nothing cancels or marks the
\* calls still in flight
handleSearch ==
  /\ Len(searches) < MaxSearches
  /\ loading' = TRUE
  /\ error' = None
  /\ searches' = Append(searches, [query |-> searchQuery,
                                   directory |-> selectedDirectory])
  /\ inFlight' = inFlight \cup { Len(searches) + 1 }
  /\ UNCHANGED <<searchQuery, icons, directories, selectedDirectory, server>>

\* a key pressed in the search box
handleKeyPress(key) ==
  /\ key = "Enter"
  /\ handleSearch

\* searchIcons from the await of fetch on, for the call at place id, whenever
\* its response arrives
searchIconsResumes(id) ==
  LET call == searches[id]
      data == AnswerTo(call.query, call.directory)
  IN  /\ id \in inFlight
      /\ IF data.status = 200
         THEN /\ icons' = data.icons
              /\ directories' = data.directories
              /\ error' = error
         ELSE /\ error' = Some(S_failed)
              /\ icons' = <<>>
              /\ directories' = <<>>
      /\ loading' = FALSE
      /\ inFlight' = inFlight \ {id}
      /\ UNCHANGED <<searchQuery, selectedDirectory, searches, server>>

UINext ==
  \/ \E value \in TypedQueries : setSearchQuery(value)
  \/ handleSearch
  \/ \E key \in {"Enter", "a"} : handleKeyPress(key)
  \/ \E id \in 1..MaxSearches : searchIconsResumes(id)

UISpec == UIInit /\ [][UINext]_vars

(***************************************************************************)
(* What the claims speak of, read off the state.                           *)
(***************************************************************************)
Answered == response # None

\* the query and the directory filter of the request being answered
Query == ParamOr(request[1].q, <<>>)

FilterProvided == Truthy(request[1].filter_dir)

FilterValue == request[1].filter_dir[1]

\* the directory the live version indexes for the request
Directory == ParamOr(request[1].dir, S_public_icons)

\* the tree below it
TraversedTree == TreeBelow(ProjectFiles(tree), ResolveDirectory(Directory))

\* the snapshot the request was answered from; empty when none was obtained
Snapshot == IF result[1].allFiles = None THEN <<>> ELSE result[1].allFiles[1]

SnapshotSet == { Snapshot[i] : i \in 1..Len(Snapshot) }

\* the scoped set: the records of the snapshot the filter leaves
ScopedSet ==
  { r \in SnapshotSet : FilterProvided => r.directory = FilterValue }

Icons == response[1].icons

IconSet == { Icons[i] : i \in 1..Len(Icons) }

QueryIsBlank == \A i \in 1..Len(Query) : Query[i] = " "

\* a sequence holds each element of a set exactly once
HoldsEachOnce(seq, S) ==
  /\ { seq[i] : i \in 1..Len(seq) } = S
  /\ \A i, j \in 1..Len(seq) : seq[i] = seq[j] => i = j

\* a is not after b in the order "directory ascending, then name ascending"
\* of the collation
DirectoryThenNameOrdered(a, b) ==
  \/ LocaleCompare(a.directory, b.directory) < 0
  \/ a.directory = b.directory /\ LocaleCompare(a.name, b.name) <= 0

\* one of the match targets of Step 4 contains the lower-cased query
HasMatchingTarget(r, q) ==
  LET name      == ToLowerCase(r.name)
      stem      == ParseName(name)
      directory == ToLowerCase(r.directory)
      path      == ToLowerCase(r.relativePath)
      AnyPiece(pieces) == \E i \in 1..Len(pieces) : Includes(pieces[i], q)
  IN  \/ Includes(name, q) \/ Includes(stem, q)
      \/ Includes(directory, q) \/ Includes(path, q)
      \/ AnyPiece(Split(stem, "-"))
      \/ AnyPiece(Split(directory, "/"))
      \/ AnyPiece(Split(path, "/"))

(***************************************************************************)
(* C1.  For an empty or whitespace-only query, with or without a           *)
(* directory filter, the icons of the response are the records of the      *)
(* scoped set, each exactly once, ordered by directory ascending and then  *)
(* by name ascending (the order of localeCompare).                         *)
(***************************************************************************)
C1_BlankQueryReturnsScopedSetSorted ==
  (Answered /\ QueryIsBlank) =>
     /\ HoldsEachOnce(Icons, ScopedSet)
     /\ \A i, j \in 1..Len(Icons) :
          i < j => DirectoryThenNameOrdered(Icons[i], Icons[j])

\* a whitespace-only query with a filter that keeps two records of one
\* directory and drops another record of the snapshot
C1_Witness ==
  /\ Answered
  /\ Query = Q_space
  /\ FilterProvided
  /\ Len(Icons) >= 2
  /\ Len(Snapshot) > Len(Icons)

(***************************************************************************)
(* C2, as claimed.  For every query, the empty and the whitespace-only     *)
(* ones included, every record of the response has a match target that     *)
(* contains the lower-cased query.                                         *)
(***************************************************************************)
C2_Claimed_EveryIconMatchesAnyQuery ==
  Answered =>
     \A i \in 1..Len(Icons) : HasMatchingTarget(Icons[i], ToLowerCase(Query))

(***************************************************************************)
(* C2, amended.  For every query that is empty or has a character that is  *)
(* not white space, every record of the response has a match target that   *)
(* contains the lower-cased query.  (A query of white space only is        *)
(* answered like the empty one, with the whole scoped set.)                *)
(***************************************************************************)
C2_EveryIconMatchesNonBlankQuery ==
  (Answered /\ (Query = <<>> \/ ~QueryIsBlank)) =>
     \A i \in 1..Len(Icons) : HasMatchingTarget(Icons[i], ToLowerCase(Query))

\* a query with an upper-case letter that keeps some records of the scoped
\* set and drops others
C2_Witness ==
  /\ Answered
  /\ Query = Q_Lambda
  /\ Len(Icons) >= 1
  /\ Cardinality(ScopedSet) > Len(Icons)

(***************************************************************************)
(* The relevance of Step 5, as the specification words it.                 *)
(***************************************************************************)
IsExactMatch(r, q) ==
  ToLowerCase(r.name) = q \/ ParseName(ToLowerCase(r.name)) = q

Relevance(r, q) ==
  LET name == ToLowerCase(r.name)
      stem == ParseName(name)
  IN  (IF IsExactMatch(r, q) THEN 100 ELSE 0)
    + (IF StartsWith(name, q) \/ StartsWith(stem, q) THEN 50 ELSE 0)
    + (IF Includes(ToLowerCase(r.directory), q) THEN 25 ELSE 0)
    + (IF Includes(name, q) THEN 10 ELSE 0)
    - r.depth

\* a is not after b in the order of Step 6
RelevanceOrdered(a, b, q) ==
  \/ Relevance(a, q) > Relevance(b, q)
  \/ Relevance(a, q) = Relevance(b, q) /\ DirectoryThenNameOrdered(a, b)

\* the names of the three records of the lambda scenario
LambdaScenarioNames ==
  <<N_lambda_svg, N_lambda_function_svg, N_aws_lambda_arch_png>>

(***************************************************************************)
(* C3, as claimed.  For a query that is not blank the icons are the        *)
(* records of the scoped set that match it, each once, ordered by          *)
(* relevance descending and, at equal relevance, by directory ascending    *)
(* and then name ascending; the three records of the lambda scenario come  *)
(* back as lambda.svg (160), lambda-function.svg (59) and                  *)
(* aws-lambda-arch.png (8).                                                *)
(***************************************************************************)
C3_Claimed_RankedByRelevanceThenDirectoryThenName ==
  (Answered /\ ~QueryIsBlank) =>
     LET q == ToLowerCase(Query)
     IN  /\ HoldsEachOnce(Icons, { r \in ScopedSet : HasMatchingTarget(r, q) })
         /\ \A i, j \in 1..Len(Icons) :
              i < j => RelevanceOrdered(Icons[i], Icons[j], q)
         /\ ( /\ Query = Q_lambda
              /\ ~FilterProvided
              /\ { r.name : r \in SnapshotSet } =
                   { LambdaScenarioNames[k] : k \in 1..3 } )
            => /\ [i \in 1..Len(Icons) |-> Icons[i].name] = LambdaScenarioNames
               /\ [i \in 1..Len(Icons) |-> Relevance(Icons[i], q)] = <<160, 59, 8>>

(***************************************************************************)
(* The ranking both versions do keep: the order of C3 with the ties of the *)
(* live-filesystem version decided on the lower-cased directory and name.  *)
(***************************************************************************)
FoldedDirectoryThenNameOrdered(a, b) ==
  DirectoryThenNameOrdered(
    [directory |-> ToLowerCase(a.directory), name |-> ToLowerCase(a.name)],
    [directory |-> ToLowerCase(b.directory), name |-> ToLowerCase(b.name)])

RankedByRelevanceWithVersionTies ==
  (Answered /\ ~QueryIsBlank) =>
     LET q == ToLowerCase(Query)
     IN  /\ HoldsEachOnce(Icons, { r \in ScopedSet : HasMatchingTarget(r, q) })
         /\ \A i, j \in 1..Len(Icons) :
              i < j =>
                \/ Relevance(Icons[i], q) > Relevance(Icons[j], q)
                \/ /\ Relevance(Icons[i], q) = Relevance(Icons[j], q)
                   /\ IF version = "live"
                      THEN FoldedDirectoryThenNameOrdered(Icons[i], Icons[j])
                      ELSE DirectoryThenNameOrdered(Icons[i], Icons[j])

(***************************************************************************)
(* C4, as claimed.  For any query, a record whose lower-cased file name,   *)
(* with or without its extension, equals the query is never placed after   *)
(* a record whose file name is not an exact match.                         *)
(***************************************************************************)
C4_Claimed_ExactMatchFirstForAnyQuery ==
  Answered =>
     \A i, j \in 1..Len(Icons) :
        (IsExactMatch(Icons[j], ToLowerCase(Query))
           /\ ~IsExactMatch(Icons[i], ToLowerCase(Query))) => j < i

(***************************************************************************)
(* C4, amended.  For any query that is not blank, a record whose           *)
(* lower-cased file name, with or without its extension, equals the query  *)
(* is never placed after a record whose file name is not an exact match,   *)
(* whatever the directories and depths of the two.  (A blank query is not  *)
(* ranked: its records come back by directory and name.)                   *)
(***************************************************************************)
C4_ExactMatchFirstForNonBlankQuery ==
  (Answered /\ ~QueryIsBlank) =>
     \A i, j \in 1..Len(Icons) :
        (IsExactMatch(Icons[j], ToLowerCase(Query))
           /\ ~IsExactMatch(Icons[i], ToLowerCase(Query))) => j < i

\* an exact match at the greatest depth is returned together with a record
\* that is no exact match and has the prefix and directory bonuses
C4_Witness ==
  /\ Answered
  /\ Query = Q_ec2
  /\ \E i, j \in 1..Len(Icons) :
        /\ IsExactMatch(Icons[i], Q_ec2) /\ Icons[i].depth = maxDepth
        /\ ~IsExactMatch(Icons[j], Q_ec2) /\ Icons[j].depth = 1
        /\ Icons[j].directory = D_ec2
        /\ i < j

(***************************************************************************)
(* C5.  For every query and every directory filter, one that matches no    *)
(* record included, the directories of the response are the distinct       *)
(* directory values of the whole snapshot, in ascending (code-unit) order  *)
(* without duplicates.                                                     *)
(***************************************************************************)
C5_DirectoriesAreTheFullRoster ==
  Answered =>
     LET roster == response[1].directories
     IN  /\ { roster[i] : i \in 1..Len(roster) } =
              { r.directory : r \in SnapshotSet }
         /\ \A i, j \in 1..Len(roster) :
              i < j => CodeUnitCompare(roster[i], roster[j]) < 0

\* a filter that matches no record of a snapshot with several directories
C5_Witness ==
  /\ Answered
  /\ FilterProvided
  /\ Snapshot # <<>>
  /\ Icons = <<>>
  /\ QueryIsBlank
  /\ Len(response[1].directories) >= 2

(***************************************************************************)
(* C6.  With a directory filter every record of the response has exactly   *)
(* the filter as its directory, for blank and other queries alike; without *)
(* one the working set is the whole snapshot.                              *)
(***************************************************************************)
C6_FilterIsExactDirectoryEquality ==
  Answered =>
     /\ FilterProvided => \A i \in 1..Len(Icons) : Icons[i].directory = FilterValue
     /\ ~FilterProvided =>
          IconSet = IF QueryIsBlank THEN SnapshotSet
                    ELSE { r \in SnapshotSet : HasMatchingTarget(r, ToLowerCase(Query)) }

\* the filter "compute" on a snapshot that also has a record below
\* compute/diagrams
C6_Witness ==
  /\ Answered
  /\ FilterProvided
  /\ FilterValue = D_compute
  /\ Len(Icons) >= 1
  /\ \E r \in SnapshotSet :
        r.directory # D_compute /\ StartsWith(r.directory, D_compute)

(***************************************************************************)
(* The records of the index passes: those the per-request traversal        *)
(* returned for the request being answered, and those the generator wrote  *)
(* to icons.json.                                                          *)
(***************************************************************************)
TraversedRecords ==
  IF Answered /\ version = "live" THEN SnapshotSet ELSE {}

GeneratedRecords == { iconsJson.files[i] : i \in 1..Len(iconsJson.files) }

IndexedRecords == TraversedRecords \cup GeneratedRecords

\* the root or the snapshot source of the deployed version is missing
SourceMissing ==
  IF version = "live"
  THEN ~DirectoryExists(tree, rootExists, ResolveDirectory(Directory))
  ELSE iconsJson.kind = "absent"

EmptyResultWithoutError ==
  /\ response[1].icons = <<>>
  /\ response[1].directories = <<>>
  /\ response[1].status = 200

(***************************************************************************)
(* C7, as claimed.  When the indexed root does not exist the Indexer, in   *)
(* the per-request traversal and in the generator, produces an empty set   *)
(* without an error, and when the root or the snapshot source does not     *)
(* exist the search answers icons = [] and directories = [] without        *)
(* throwing.                                                               *)
(***************************************************************************)
C7_Claimed_MissingRootYieldsEmptySetWithoutError ==
  /\ (~rootExists /\ genStatus # "none") =>
        /\ genStatus = "ok"
        /\ iconsJson = [kind |-> "ok", files |-> <<>>]
  /\ (Answered /\ SourceMissing) => EmptyResultWithoutError

(***************************************************************************)
(* C8, as claimed.  A fault while the snapshot is loaded, filtered or      *)
(* scored, such as a snapshot that cannot be parsed, yields a response     *)
(* with empty icons and directories that carries a failure indicator, and  *)
(* no exception leaves GET.                                                *)
(***************************************************************************)
C8_Claimed_FaultCarriesFailureIndicator ==
  (Answered /\ result[1].fault = "caught" /\ iconsJson.kind = "corrupt") =>
     /\ response[1].icons = <<>>
     /\ response[1].directories = <<>>
     /\ response[1].error # None

\* the names of the directories a record lies below, by its relativePath and
\* by its directory ("." is the generator's directory of a file of the root)
DirectoryNamesOf(r) ==
  LET segments == Split(r.relativePath, "/")
  IN  { segments[i] : i \in 1..(Len(segments) - 1) }
        \cup (IF r.directory = S_dot THEN {}
              ELSE LET d == Split(r.directory, "/")
                   IN  { d[i] : i \in 1..Len(d) })

(***************************************************************************)
(* C9, as claimed.  No record of an index pass, per-request traversal or   *)
(* generator, lies below a directory whose name starts with '.' or is      *)
(* node_modules.                                                           *)
(***************************************************************************)
C9_Claimed_NoHiddenOrNodeModulesDirectory ==
  \A r \in IndexedRecords :
     \A d \in DirectoryNamesOf(r) : ~StartsWith(d, <<".">>) /\ d # D_node_modules

(***************************************************************************)
(* C10, as claimed.  The path of every record of an index pass,            *)
(* per-request traversal or generator, begins with the public mount        *)
(* prefix /icons/, under which the files of public/icons are served.       *)
(***************************************************************************)
C10_Claimed_PathBeginsWithMountPrefix ==
  \A r \in IndexedRecords : StartsWith(r.path, S_icons_prefix)

\* the elements of a sequence
Range(seq) == { seq[i] : i \in 1..Len(seq) }

\* a record is that of the entry at path p or of an entry below it
LiesAtOrBelow(r, p) ==
  \/ r.relativePath = Join(p, "/")
  \/ StartsWith(r.relativePath, Join(p, "/") \o <<"/">>)

\* the records of the live traversal and of the generator over the tree of
\* the state when no filesystem call fails
TraversalWithoutFailure ==
  Range(getAllFilesRecursively(TraversedTree, readdirRev, <<>>, 0, None))

GenerationWithoutFailure ==
  Range(getAllIconFiles(tree, readdirRev, <<>>, 0, None).files)

\* an entry below the root failed in the index pass the state holds
EntryFailed == failing # None /\ failing[1] # <<>>

(***************************************************************************)
(* C11, as claimed.  When a subdirectory cannot be read or the metadata of *)
(* a file cannot be fetched during an index pass, per-request traversal or *)
(* generator, the pass completes normally and loses the records of that    *)
(* entry only: every other entry, listed before or after it, is indexed.   *)
(***************************************************************************)
C11_Claimed_FailingEntryLosesOnlyItsOwnRecords ==
  /\ (EntryFailed /\ version = "live" /\ Answered) =>
        /\ result[1].fault = "none"
        /\ SnapshotSet =
             { r \in TraversalWithoutFailure : ~LiesAtOrBelow(r, failing[1]) }
  /\ (EntryFailed /\ version = "snapshot") =>
        /\ genStatus = "ok"
        /\ iconsJson.kind = "ok"
        /\ GeneratedRecords =
             { r \in GenerationWithoutFailure : ~LiesAtOrBelow(r, failing[1]) }

\* the same of the per-request traversal alone, which catches both failures
LiveFailingEntryLosesOnlyItsOwnRecords ==
  (EntryFailed /\ version = "live" /\ Answered) =>
     /\ result[1].fault = "none"
     /\ SnapshotSet =
          { r \in TraversalWithoutFailure : ~LiesAtOrBelow(r, failing[1]) }

\* the number of "/" in a string
CountSlashes(str) == Cardinality({ i \in 1..Len(str) : str[i] = "/" })

\* the files of a tree an index pass is to record: those of a supported
\* format, at most cap directory levels below the root and, where the pass
\* skips directories, below no skipped directory
Indexable(t, cap, skipping) ==
  { f \in t :
      /\ ToLowerCase(Extname(f[Len(f)])) \in SupportedFormats
      /\ Len(f) - 1 <= cap
      /\ skipping => \A k \in 1..(Len(f) - 1) : ~IsSkippedDirectory(f[k]) }

RelativePathsOf(records) == { r.relativePath : r \in records }

\* a pass of the live traversal, or a run of the generator, in which no
\* filesystem call failed
LivePassRan ==
  Answered /\ version = "live" /\ ~SourceMissing /\ failing = None

GeneratorRan == genStatus # "none" /\ rootExists /\ failing = None

(***************************************************************************)
(* C12.  Every record of an index pass, per-request traversal or           *)
(* generator, has 0 <= depth <= maxDepth, and its depth is the number of   *)
(* "/" in its relativePath; a pass over a tree with files nested deeper    *)
(* than maxDepth ends without an error and records every other file it is  *)
(* to record.                                                              *)
(***************************************************************************)
C12_DepthIsLevelCountAtMostMaxDepth ==
  /\ \A r \in IndexedRecords :
        /\ 0 <= r.depth /\ r.depth <= maxDepth
        /\ r.depth = CountSlashes(r.relativePath)
  /\ LivePassRan =>
        /\ result[1].fault = "none"
        /\ RelativePathsOf(SnapshotSet) =
             { Join(f, "/") : f \in Indexable(TraversedTree, maxDepth, TRUE) }
  /\ GeneratorRan =>
        /\ genStatus = "ok"
        /\ RelativePathsOf(GeneratedRecords) =
             { Join(f, "/") : f \in Indexable(tree, genMaxDepth, FALSE) }

\* a pass over a tree with a file deeper than maxDepth has recorded a file
\* at depth maxDepth
C12_Witness ==
  /\ LivePassRan \/ GeneratorRan
  /\ \E f \in tree : Len(f) - 1 > maxDepth
  /\ \E r \in IndexedRecords : r.depth = maxDepth

\* the parent of a relative path with at least one "/"
ParentOf(relativePath) ==
  LET segments == Split(relativePath, "/")
  IN  Join(SubSeq(segments, 1, Len(segments) - 1), "/")

(***************************************************************************)
(* C13, as claimed.  The directory of every record, of the per-request     *)
(* traversal and of the generator, is the parent of its relativePath with  *)
(* "/" as the separator, and it is "root" exactly when the file lies       *)
(* directly under the indexed root, at depth 0.                            *)
(***************************************************************************)
C13_Claimed_DirectoryIsParentOrRootSentinel ==
  \A r \in IndexedRecords :
     /\ r.depth > 0 => r.directory = ParentOf(r.relativePath)
     /\ (r.directory = S_root) <=> (r.depth = 0)

\* the same of the records of the per-request traversal alone
LiveDirectoryIsParentOrRootSentinel ==
  \A r \in TraversedRecords :
     /\ r.depth > 0 => r.directory = ParentOf(r.relativePath)
     /\ (r.directory = S_root) <=> (r.depth = 0)

\* what the other version answers to the request of the state over the same
\* tree: the snapshot version from a snapshot generated from it, the live
\* version by traversing it
OtherVersionResult ==
  LET filterDir == ParamOrUndefined(request[1].filter_dir)
      allIcons  == getAllIconFiles(tree, readdirRev, <<>>, 0, None)
  IN  IF version = "live"
      THEN searchIconFilesSnapshot([kind |-> "ok", files |-> allIcons.files],
                                   Query, filterDir)
      ELSE searchIconFilesLive(tree, readdirRev, rootExists, Query,
                               S_public_icons, filterDir, None)

\* the request was answered from an index of public/icons that no failure
\* touched: by the live version, or by the snapshot version from a snapshot
\* the generator wrote
AnsweredFromIndexOfTree ==
  /\ Answered
  /\ rootExists
  /\ failing = None
  /\ request[1].dir = None
  /\ version = "snapshot" => iconsJson.kind = "ok"

(***************************************************************************)
(* C14, as claimed.  Over the same directory tree, for the same query and  *)
(* the same directory filter, the live version and the snapshot version    *)
(* answer with the same icons in the same order and with the same          *)
(* directories.                                                            *)
(***************************************************************************)
C14_Claimed_LiveAndSnapshotAnswerAlike ==
  AnsweredFromIndexOfTree =>
     /\ result[1].icons = OtherVersionResult.icons
     /\ result[1].directories = OtherVersionResult.directories

\* what the live version answers to the query and the directory filter of
\* the request of the state when it carries no other parameter
ResultWithoutOtherParameters ==
  searchIconFilesLive(tree, readdirRev, rootExists, Query, S_public_icons,
                      ParamOrUndefined(request[1].filter_dir), None)

(***************************************************************************)
(* C16, as claimed.  The answer to a request depends on the tree below     *)
(* public/icons, the query and the directory filter only: a request with   *)
(* further parameters is answered as the request with the same query and   *)
(* filter and no other parameter is, and every record of the snapshot it   *)
(* is answered from is that of a file below public/icons.                  *)
(***************************************************************************)
C16_Claimed_OnlyQueryAndFilterDecideTheAnswer ==
  (Answered /\ failing = None) =>
     /\ version = "live" =>
           /\ result[1].icons = ResultWithoutOtherParameters.icons
           /\ result[1].directories = ResultWithoutOtherParameters.directories
     /\ \A r \in SnapshotSet :
           \E f \in tree : r.relativePath = Join(f, "/")

\* the same of the snapshot version, which reads no other parameter
SnapshotAnswerIsOfFilesBelowIconsRoot ==
  (Answered /\ version = "snapshot") =>
     \A r \in SnapshotSet : \E f \in tree : r.relativePath = Join(f, "/")

\* the call of searchIcons made last
LatestSearch == searches[Len(searches)]

(***************************************************************************)
(* C15, as claimed.  When the page has made several searches, by click or  *)
(* by Enter, and their responses have arrived in whatever order, the       *)
(* icons and directories it shows once no request is in flight are those   *)
(* answered to the search made last.                                       *)
(***************************************************************************)
C15_Claimed_LatestSearchIsDisplayed ==
  (searches # <<>> /\ inFlight = {}) =>
     LET data == AnswerTo(LatestSearch.query, LatestSearch.directory)
     IN  /\ icons = data.icons
         /\ directories = data.directories

=============================================================================
